---- MODULE Spec2Model ----
(***************************************************************************)
(* Coordinator orchestration engine of lilcl: the CEO agent (coordinator), *)
(* its team agents (workers), the selection policy and the task ledger.    *)
(*                                                                         *)
(* JavaScript runs every handler to completion between two awaits, so each *)
(* action below is one synchronous segment of the source: from a call (or  *)
(* the resumption of an await) up to the next await or the return.         *)
(*                                                                         *)
(* Strings that the code inspects (skill tags, required skills, task       *)
(* descriptions, role keywords) are sequences of one-character strings, so *)
(* toLowerCase() and includes() are computed and not assumed.              *)
(***************************************************************************)
EXTENDS Integers, Sequences, FiniteSets, TLC

\* ------------------------------------------------------------------ bounds
\* number of assignTask / POST /task invocations issued in one behaviour
MaxCalls == 2

\* the same for the deeper specification SpecDeep, which lets one more
\* invocation pile up on the agents
DeepCalls == MaxCalls + 1

\* aggregateResults / generateTeamReport invocations issued in one behaviour
MaxCeoCalls == 1

\* task invocations in the runs that call selectBestAgent directly
SelectCalls == MaxCalls - 1

\* Agent objects constructed with the same name
MaxObjects == 2

\* steps of the wall clock in one behaviour
MaxTicks == 2

\* registry and history sizes on which calculateSystemHealth is evaluated
\* as a function of its inputs
HealthAgents == 4

HealthTasks == 5

\* /task commands and priority button presses the bot handles in one behaviour
MaxSessions == 2

MaxPresses == 2

\* ------------------------------------------------------------ program data
\* the coordinator itself is an Agent (index.js:10-23)
CEO == "lil_Boss_CEO"

\* team agents created by the gateway (part_000:376-412); two of them
Workers == {"lil_SEO_Specialist", "lil_Finance_Analyst"}

Agents == Workers \cup {CEO}

role(a) ==
  CASE a = "lil_SEO_Specialist"  -> "SEO_Specialist"
    [] a = "lil_Finance_Analyst" -> "Finance_Analyst"
    [] OTHER                     -> "CEO"

specialKnowledge(a) ==
  CASE a = "lil_SEO_Specialist" ->
         << "Search Engine Optimization",
            "Keyword Research",
            "Technical SEO",
            "Content Optimization",
            "SERP Analysis" >>
    [] a = "lil_Finance_Analyst" ->
         << "Financial Analysis",
            "Budget Planning",
            "Cost Analysis",
            "ROI Calculation",
            "Financial Forecasting" >>
    [] OTHER -> << >>

\* ----------------------------------------------------------------- inputs
\* the priorities POST /task accepts (part_000:522)
validPriorities == {"high", "medium", "low"}

\* the chats that talk to the Telegram bot
Chats == {1, 2}

\* the two bot classes of the repository
BotClasses == {"AgentsTeamBot", "AgentsTeamBotFixed"}

\* what the gateway answers a POST /task of the bot: a body with success
\* true, a body with success false, or no answer (fetch rejects)
GatewayAnswers == {"success", "failure", "networkError"}

\* the submissions callers send: description, priority and required skills
Requests ==
  { [description |-> "Analyze SEO opportunities", priority |-> "high",
     requiredSkills |-> << "SEO" >>],
    [description |-> "Plan costs", priority |-> "urgent", requiredSkills |-> << "Budget" >>] }

\* submissions with each valid priority, and the one with an invalid priority
DeadlineRequests ==
  { [description |-> "Plan costs", priority |-> p, requiredSkills |-> << "Budget" >>] :
      p \in validPriorities \cup {"urgent"} }

\* outcomes of one completion-service call
Outcomes == {"text", "error"}

\* arguments a direct caller passes to selectBestAgent: those of the first
\* request, two on which both workers score the same (0 and 10) and one where
\* a skill match of one worker meets a role match of the other
SelectionInputs ==
  { [requiredSkills |-> <<"SEO">>, taskDescription |-> "Analyze SEO opportunities"],
    [requiredSkills |-> << >>, taskDescription |-> "Write report"],
    [requiredSkills |-> <<"Analysis">>, taskDescription |-> "Write report"],
    [requiredSkills |-> <<"SEO">>, taskDescription |-> "Plan costs"] }

\* ------------------------------------------------------------------ state
VARIABLES
  teamAgents,          \* CEOAgent.teamAgents: registered workers, in Map insertion order
  status,              \* Agent.status of every agent
  currentTasks,        \* Agent.currentTasks of every agent: taskId -> local record
  activeTasks,         \* CEOAgent.activeTasks: taskId -> task record
  taskHistory,         \* CEOAgent.taskHistory: sequence of task records
  performanceMetrics,  \* CEOAgent.performanceMetrics
  calls,               \* the assignTask / POST /task invocations, in issue order
  registeredObject,    \* which Agent object the Map holds under a name (0: none)
  ceoCalls,            \* the aggregateResults / generateTeamReport invocations
  selection,           \* what the last direct call of selectBestAgent returned
  clock,               \* the wall clock, in milliseconds since the start
  health,              \* what the last direct call of calculateSystemHealth returned
  lookup,              \* what the last direct call of getTaskStatus returned
  botClass,            \* which bot class runs: AgentsTeamBot or AgentsTeamBotFixed
  userSessions,        \* the bot's userSessions Map: chatId -> session object (0: no entry)
  sessions,            \* the session objects created so far
  keyboardShown,       \* the chats that were sent the priority keyboard
  callbacks,           \* the handleCallbackQuery invocations that found a session
  posts                \* the POST /task requests the bot has issued

vars == <<teamAgents, status, currentTasks, activeTasks, taskHistory,
          performanceMetrics, calls, registeredObject, ceoCalls, selection,
          clock, health, lookup, botClass, userSessions, sessions, keyboardShown,
          callbacks, posts>>

\* the state of the Telegram bot
botVars == <<botClass, userSessions, sessions, keyboardShown, callbacks, posts>>

NoAgent == "none"

\* ------------------------------------------------------- string functions
\* the characters of the strings above (a JavaScript string is a sequence of
\* characters; the state keeps the string, the string functions read this)
chars(str) ==
  CASE str = "Search Engine Optimization" ->
         <<"S","e","a","r","c","h"," ","E","n","g","i","n","e"," ","O","p","t","i","m","i","z","a","t","i","o","n">>
    [] str = "Keyword Research" ->
         <<"K","e","y","w","o","r","d"," ","R","e","s","e","a","r","c","h">>
    [] str = "Technical SEO" ->
         <<"T","e","c","h","n","i","c","a","l"," ","S","E","O">>
    [] str = "Content Optimization" ->
         <<"C","o","n","t","e","n","t"," ","O","p","t","i","m","i","z","a","t","i","o","n">>
    [] str = "SERP Analysis" ->
         <<"S","E","R","P"," ","A","n","a","l","y","s","i","s">>
    [] str = "Financial Analysis" ->
         <<"F","i","n","a","n","c","i","a","l"," ","A","n","a","l","y","s","i","s">>
    [] str = "Budget Planning" ->
         <<"B","u","d","g","e","t"," ","P","l","a","n","n","i","n","g">>
    [] str = "Cost Analysis" ->
         <<"C","o","s","t"," ","A","n","a","l","y","s","i","s">>
    [] str = "ROI Calculation" ->
         <<"R","O","I"," ","C","a","l","c","u","l","a","t","i","o","n">>
    [] str = "Financial Forecasting" ->
         <<"F","i","n","a","n","c","i","a","l"," ","F","o","r","e","c","a","s","t","i","n","g">>
    [] str = "Analyze SEO opportunities" ->
         <<"A","n","a","l","y","z","e"," ","S","E","O"," ","o","p","p","o","r","t","u","n","i","t","i","e","s">>
    [] str = "Plan costs" ->
         <<"P","l","a","n"," ","c","o","s","t","s">>
    [] str = "SEO" ->
         <<"S","E","O">>
    [] str = "Budget" ->
         <<"B","u","d","g","e","t">>
    [] str = "Analysis" ->
         <<"A","n","a","l","y","s","i","s">>
    [] str = "Write report" ->
         <<"W","r","i","t","e"," ","r","e","p","o","r","t">>
    [] OTHER -> << >>

\* String.prototype.toLowerCase on one character
LowerChar(ch) ==
  CASE ch = "A" -> "a" [] ch = "B" -> "b" [] ch = "C" -> "c" [] ch = "E" -> "e"
    [] ch = "F" -> "f" [] ch = "I" -> "i" [] ch = "K" -> "k" [] ch = "O" -> "o"
    [] ch = "P" -> "p" [] ch = "R" -> "r" [] ch = "S" -> "s" [] ch = "T" -> "t"
    [] ch = "W" -> "w"
    [] OTHER -> ch

toLowerCase(s) == [i \in 1..Len(s) |-> LowerChar(s[i])]

\* String.prototype.includes: needle occurs in hay as a contiguous substring
includes(hay, needle) ==
  \E i \in 0..(Len(hay) - Len(needle)) :
     \A j \in 1..Len(needle) : hay[i + j] = needle[j]

\* ------------------------------------------------------ selection policy
\* CEOAgent.calculateRoleScore: 15 when the lower-cased description contains
\* one of the role's keywords, otherwise 0 (also 0 for a role not in the table)
roleKeywords(r) ==
  CASE r = "SEO_Specialist" ->
         { <<"s","e","o">>, <<"s","e","a","r","c","h">>, <<"k","e","y","w","o","r","d">> }
    [] r = "Brand_Manager" ->
         { <<"b","r","a","n","d">>, <<"i","d","e","n","t","i","t","y">>, <<"i","m","a","g","e">> }
    [] r = "Market_Analyst" ->
         { <<"m","a","r","k","e","t">>, <<"a","n","a","l","y","s","i","s">>, <<"t","r","e","n","d">> }
    [] r = "Finance_Analyst" ->
         { <<"f","i","n","a","n","c","e">>, <<"b","u","d","g","e","t">>, <<"c","o","s","t">> }
    [] r = "Product_Manager" ->
         { <<"p","r","o","d","u","c","t">>, <<"f","e","a","t","u","r","e">>,
           <<"d","e","v","e","l","o","p","m","e","n","t">> }
    [] r = "Marketing_Manager" ->
         { <<"m","a","r","k","e","t","i","n","g">>, <<"c","a","m","p","a","i","g","n">>,
           <<"p","r","o","m","o","t","i","o","n">> }
    [] r = "Partnership_Manager" ->
         { <<"p","a","r","t","n","e","r","s","h","i","p">>,
           <<"c","o","l","l","a","b","o","r","a","t","i","o","n">>,
           <<"a","l","l","i","a","n","c","e">> }
    [] OTHER -> {}

calculateRoleScore(r, taskDescription) ==
  IF \E kw \in roleKeywords(r) : includes(toLowerCase(chars(taskDescription)), kw)
  THEN 15 ELSE 0

\* the skill part of the score: +10 for every required skill that is a
\* case-insensitive substring of one of the agent's knowledge tags
skillScore(a, requiredSkills) ==
  10 * Cardinality({ i \in 1..Len(requiredSkills) :
         \E k \in 1..Len(specialKnowledge(a)) :
            includes(toLowerCase(chars(specialKnowledge(a)[k])),
                     toLowerCase(chars(requiredSkills[i]))) })

score(a, requiredSkills, taskDescription) ==
  skillScore(a, requiredSkills) + calculateRoleScore(role(a), taskDescription)

availableAgents_all == teamAgents

\* Array.prototype.filter(agent => agent.status === 'idle') over the Map's values
availableAgents == SelectSeq(teamAgents, LAMBDA a : status[a] = "idle")

\* Map.size of an agent's local task map: every record counts, finished or not
currentTasksSize(a) == Cardinality(DOMAIN currentTasks[a])

\* agents.reduce((leastBusy, agent) => agent.size < leastBusy.size ? agent : leastBusy)
\* over a non-empty array, no initial value: the first element starts as leastBusy
RECURSIVE reduceLeastBusy(_, _)
reduceLeastBusy(leastBusy, rest) ==
  IF rest = << >> THEN leastBusy
  ELSE reduceLeastBusy(
         IF currentTasksSize(Head(rest)) < currentTasksSize(leastBusy)
         THEN Head(rest) ELSE leastBusy,
         Tail(rest))

RECURSIVE sortByScore_tiesLast(_)
sortByScore_tiesLast(scored) ==
  IF scored = << >> THEN << >>
  ELSE LET n      == Len(scored)
           x      == scored[n]
           sorted == sortByScore_tiesLast(SubSeq(scored, 1, n - 1))
           keep   == Cardinality({ i \in 1..Len(sorted) : sorted[i].score > x.score })
       IN  SubSeq(sorted, 1, keep) \o <<x>> \o SubSeq(sorted, keep + 1, Len(sorted))

RECURSIVE sortByScore_ascending(_)
sortByScore_ascending(scored) ==
  IF scored = << >> THEN << >>
  ELSE LET n      == Len(scored)
           x      == scored[n]
           sorted == sortByScore_ascending(SubSeq(scored, 1, n - 1))
           keep   == Cardinality({ i \in 1..Len(sorted) : sorted[i].score <= x.score })
       IN  SubSeq(sorted, 1, keep) \o <<x>> \o SubSeq(sorted, keep + 1, Len(sorted))

\* scoredAgents.sort((a, b) => b.score - a.score): stable, descending by score
RECURSIVE sortByScore(_)
sortByScore(scored) ==
  IF scored = << >> THEN << >>
  ELSE LET n      == Len(scored)
           x      == scored[n]
           sorted == sortByScore(SubSeq(scored, 1, n - 1))
           \* x goes behind every element whose score is not smaller
           keep   == Cardinality({ i \in 1..Len(sorted) : sorted[i].score >= x.score })
       IN  SubSeq(sorted, 1, keep) \o <<x>> \o SubSeq(sorted, keep + 1, Len(sorted))

\* CEOAgent.selectBestAgent.  threw: reduce of an empty array without an
\* initial value raises a TypeError (no agent registered at all).
selectBestAgent(requiredSkills, taskDescription) ==
  IF Len(availableAgents) = 0
  THEN IF Len(teamAgents) = 0
       THEN [threw |-> TRUE, agent |-> NoAgent, branch |-> "leastBusy"]
       ELSE [threw |-> FALSE,
             agent |-> reduceLeastBusy(Head(teamAgents), Tail(teamAgents)),
             branch |-> "leastBusy"]
  ELSE LET scoredAgents ==
             [i \in 1..Len(availableAgents) |->
                [agent |-> availableAgents[i],
                 score |-> score(availableAgents[i], requiredSkills, taskDescription)]]
       IN  [threw |-> FALSE,
            agent |-> sortByScore(scoredAgents)[1].agent,
            branch |-> "idle"]

\* ------------------------------------------------------------- the worker
\* the result object processTask returns
ProcResult(ok, err) == [success |-> ok, error |-> err]

NoResult == [success |-> FALSE, error |-> "pending"]

\* Agent.processTask up to its await: status flips to busy and the local
\* record is set (Map.set replaces a record of the same id)
statusOnAccept_notFlipped == "idle"

statusOnAccept == "busy"

processTaskStart_statusKept(a, taskId) ==
  [st |-> status,
   ct |-> [currentTasks EXCEPT ![a] = (taskId :> [status |-> "processing"]) @@ @]]

processTaskStart(a, taskId) ==
  [st |-> [status EXCEPT ![a] = statusOnAccept],
   ct |-> [currentTasks EXCEPT ![a] = (taskId :> [status |-> "processing"]) @@ @]]

\* the status processTask leaves behind on its two return paths
statusOnSuccess_staysBusy == "busy"

statusOnSuccess == "idle"

statusOnFailure_staysBusy == "busy"

statusOnFailure == "idle"

processTaskFinish_idlesAll(a, taskId, outcome) ==
  LET present == taskId \in DOMAIN currentTasks[a]
      ok      == outcome = "text" /\ present
  IN  [st  |-> [x \in Agents |-> "idle"],
       ct  |-> IF present
               THEN [currentTasks EXCEPT
                       ![a][taskId].status = IF ok THEN "completed" ELSE "failed"]
               ELSE currentTasks,
       res |-> ProcResult(ok, IF ok THEN "none"
                              ELSE IF outcome = "text" THEN "TypeError" ELSE "ServiceError")]

processTaskFinish_recordUntouched(a, taskId, outcome) ==
  IF outcome = "text" /\ taskId \in DOMAIN currentTasks[a]
  THEN [st  |-> [status EXCEPT ![a] = statusOnSuccess],
        ct  |-> currentTasks,
        res |-> ProcResult(TRUE, "none")]
  ELSE [st  |-> [status EXCEPT ![a] = statusOnFailure],
        ct  |-> currentTasks,
        res |-> ProcResult(FALSE, IF outcome = "text" THEN "TypeError" ELSE "ServiceError")]

\* Agent.processTask after its await.  outcome "text": the completion service
\* answered; "error": it rejected.  On the success path a missing local record
\* raises a TypeError inside the try block, which the catch block turns into a
\* failed result as well.
processTaskFinish(a, taskId, outcome) ==
  LET present == taskId \in DOMAIN currentTasks[a]
  IN  IF outcome = "text" /\ present
      THEN [st  |-> [status EXCEPT ![a] = statusOnSuccess],
            ct  |-> [currentTasks EXCEPT ![a][taskId].status = "completed"],
            res |-> ProcResult(TRUE, "none")]
      ELSE [st  |-> [status EXCEPT ![a] = statusOnFailure],
            ct  |-> IF present
                    THEN [currentTasks EXCEPT ![a][taskId].status = "failed"]
                    ELSE currentTasks,
            res |-> ProcResult(FALSE, IF outcome = "text" THEN "TypeError" ELSE "ServiceError")]

\* ------------------------------------------------------------- the ledger
deadlineHours_alwaysDefault(priority) == 24

\* the deadlineHours table of calculateDeadline, with its `|| 24`
deadlineHours(priority) ==
  CASE priority = "high" -> 2
    [] priority = "medium" -> 24
    [] priority = "low" -> 72
    [] OTHER -> 24

\* CEOAgent.calculateDeadline: now.getTime() + hours * 60 * 60 * 1000
calculateDeadline(priority) == clock + deadlineHours(priority) * 60 * 60 * 1000

\* the task record assignTask creates (index.js:79-88)
newTask(taskId, req, agent) ==
  [id |-> taskId, description |-> req.description, priority |-> req.priority,
   requiredSkills |-> req.requiredSkills, assignedAgent |-> agent,
   status |-> "assigned", progress |-> 0, result |-> NoResult, completed |-> FALSE]

finishedTask_alwaysCompleted(task, res) ==
  [task EXCEPT !.status = "completed", !.completed = TRUE, !.result = res,
               !.progress = 100]

finishedTask_progressKept(task, res) ==
  [task EXCEPT !.status = IF res.success THEN "completed" ELSE "failed",
               !.completed = TRUE, !.result = res]

\* the record after "Update task status" (index.js:108-111)
finishedTask(task, res) ==
  [task EXCEPT !.status = IF res.success THEN "completed" ELSE "failed",
               !.completed = TRUE, !.result = res, !.progress = 100]

historyAfterMove_replace(task) == <<task>>

\* "Move to history" (index.js:121-122): push, then delete from the active map
historyAfterMove(task) == Append(taskHistory, task)

activeAfterMove_noDelete(taskId) == activeTasks

activeAfterMove(taskId) == [t \in DOMAIN activeTasks \ {taskId} |-> activeTasks[t]]

successRateOf_stale(h) ==
  IF Len(h) > 1
  THEN [num |-> 100 * Cardinality({ i \in 1..(Len(h) - 1) : h[i].status = "completed" }),
        den |-> Len(h) - 1]
  ELSE [num |-> 0, den |-> 1]

\* CEOAgent.updatePerformanceMetrics over a history h: successRate is
\* (completed / total) * 100, kept here as the exact fraction num/den
successRateOf(h) ==
  IF Len(h) > 0
  THEN [num |-> 100 * Cardinality({ i \in 1..Len(h) : h[i].status = "completed" }),
        den |-> Len(h)]
  ELSE [num |-> 0, den |-> 1]

mathRound_truncate(x) == x.num \div x.den

\* Math.round of a non-negative fraction: halves go up
mathRound(x) == (2 * x.num + x.den) \div (2 * x.den)

\* totalAgents > 0 ? (idleAgents / totalAgents) * 50 : 0
availabilityScoreOf(idleAgents, totalAgents) ==
  IF totalAgents > 0
  THEN [num |-> 50 * idleAgents, den |-> totalAgents]
  ELSE [num |-> 0, den |-> 1]

availabilityScore ==
  availabilityScoreOf(Len(SelectSeq(teamAgents, LAMBDA a : status[a] = "idle")),
                      Len(teamAgents))

performanceScore_notHalved(successRate) == successRate

\* Math.min(successRate / 2, 50)
performanceScore(successRate) ==
  IF successRate.num > 100 * successRate.den
  THEN [num |-> 50, den |-> 1]
  ELSE [num |-> successRate.num, den |-> 2 * successRate.den]

\* Math.round(availabilityScore + performanceScore), the sum kept as a fraction
systemHealthOf(idleAgents, totalAgents, successRate) ==
  LET a == availabilityScoreOf(idleAgents, totalAgents)
      b == performanceScore(successRate)
  IN  mathRound([num |-> a.num * b.den + b.num * a.den, den |-> a.den * b.den])

\* CEOAgent.calculateSystemHealth on the registry and the stored successRate
calculateSystemHealth ==
  systemHealthOf(Len(SelectSeq(teamAgents, LAMBDA a : status[a] = "idle")),
                 Len(teamAgents), performanceMetrics.successRate)

StatusOf_literalWins(task) ==
  [found |-> TRUE, status |-> IF task.completed THEN "completed" ELSE "active",
   id |-> task.id, assignedAgent |-> task.assignedAgent,
   description |-> task.description, result |-> task.result]

\* what getTaskStatus answers: `{found: true, status: 'active', ...task}` -
\* the spread comes last, so the record's own status replaces the literal
StatusOf(task) ==
  [found |-> TRUE, status |-> task.status, id |-> task.id,
   assignedAgent |-> task.assignedAgent, description |-> task.description,
   result |-> task.result]

NotFound ==
  [found |-> FALSE, status |-> "none", id |-> 0, assignedAgent |-> NoAgent,
   description |-> "", result |-> NoResult]

getTaskStatus_activeOnly(taskId) ==
  IF taskId \in DOMAIN activeTasks
  THEN StatusOf(activeTasks[taskId])
  ELSE NotFound

\* CEOAgent.getTaskStatus: the active map first, then the first history entry
\* with that id
getTaskStatus(taskId) ==
  IF taskId \in DOMAIN activeTasks
  THEN StatusOf(activeTasks[taskId])
  ELSE IF \E i \in 1..Len(taskHistory) : taskHistory[i].id = taskId
       THEN StatusOf(taskHistory[
              CHOOSE i \in 1..Len(taskHistory) :
                 /\ taskHistory[i].id = taskId
                 /\ \A j \in 1..(i - 1) : taskHistory[j].id # taskId])
       ELSE NotFound

completedTasksOf_anyFound(taskIds) ==
  SelectSeq([i \in 1..Len(taskIds) |-> getTaskStatus(taskIds[i])], LAMBDA t : t.found)

\* aggregateResults: taskIds.map(getTaskStatus).filter(found), then
\* .filter(task => task.status === 'completed' && task.result?.success)
completedTasksOf(taskIds) ==
  SelectSeq([i \in 1..Len(taskIds) |-> getTaskStatus(taskIds[i])],
            LAMBDA t : t.found /\ t.status = "completed" /\ t.result.success)

agentsInvolved_registered(completedTasks) == { teamAgents[i] : i \in 1..Len(teamAgents) }

\* [...new Set(completedTasks.map(task => task.assignedAgent))]
agentsInvolved(completedTasks) ==
  { completedTasks[i].assignedAgent : i \in 1..Len(completedTasks) }

\* the teamStats object generateTeamReport builds before its await; its
\* performance_metrics member is the live performanceMetrics object, read
\* when the report is returned
teamStats ==
  [total_agents |-> Len(teamAgents),
   active_tasks |-> Cardinality(DOMAIN activeTasks),
   completed_tasks |->
     Cardinality({ i \in 1..Len(taskHistory) : taskHistory[i].status = "completed" }),
   failed_tasks |->
     Cardinality({ i \in 1..Len(taskHistory) : taskHistory[i].status = "failed" }),
   agent_status |-> [i \in 1..Len(teamAgents) |-> status[teamAgents[i]]]]

NoStats ==
  [total_agents |-> 0, active_tasks |-> 0, completed_tasks |-> 0, failed_tasks |-> 0,
   agent_status |-> << >>]

recommendationsOf_alwaysIncluded(res) == "Included in CEO insights"

\* result.success ? 'Included in CEO insights' : 'Failed to generate insights'
recommendationsOf(res) ==
  IF res.success THEN "Included in CEO insights" ELSE "Failed to generate insights"

\* -------------------------------------------------------------- the calls
\* what a caller of assignTask gets: a returned object, or the rejection of
\* the promise when the body throws outside its try block
NoReturn == [kind |-> "pending", success |-> FALSE, taskId |-> 0,
             assignedAgent |-> NoAgent, error |-> "none"]

Returned_agentOmitted(ok, taskId, agent, err) ==
  [kind |-> "returned", success |-> ok, taskId |-> taskId,
   assignedAgent |-> NoAgent, error |-> err]

Returned(ok, taskId, agent, err) ==
  [kind |-> "returned", success |-> ok, taskId |-> taskId,
   assignedAgent |-> agent, error |-> err]

Threw(err) ==
  [kind |-> "threw", success |-> FALSE, taskId |-> 0,
   assignedAgent |-> NoAgent, error |-> err]

\* POST /task answers 400 without calling assignTask
Rejected(err) ==
  [kind |-> "rejected", success |-> FALSE, taskId |-> 0,
   assignedAgent |-> NoAgent, error |-> err]

\* deadline: the context.deadline assignTask hands to processTask
Call(pc, taskId, agent, branch, deadline, res, ret) ==
  [pc |-> pc, taskId |-> taskId, agent |-> agent, branch |-> branch,
   deadline |-> deadline, procResult |-> res, ret |-> ret]

NoDeadline == 0

\* the id of a processTask call the CEO makes on itself:
\* `aggregation-${Date.now()}` or `team-report-${Date.now()}`
CeoTaskId(kind, at) == [kind |-> kind, at |-> at]

\* what aggregateResults and generateTeamReport return; ceo_insights and
\* aggregated_result are result.result: the text, or undefined on a failure
NoCeoReturn ==
  [kind |-> "pending", success |-> FALSE, error |-> "none", result |-> "none",
   agents_involved |-> {}, team_statistics |-> NoStats,
   performance_metrics |-> [tasksCompleted |-> 0, tasksAssigned |-> 0,
                            successRate |-> [num |-> 0, den |-> 1]],
   recommendations |-> "none"]

AggregateFailed(err) ==
  [NoCeoReturn EXCEPT !.kind = "returned", !.error = err]

Aggregated(res, agents) ==
  [NoCeoReturn EXCEPT !.kind = "returned", !.success = TRUE,
                      !.result = IF res.success THEN "text" ELSE "undefined",
                      !.agents_involved = agents]

TeamReport(res, stats) ==
  [NoCeoReturn EXCEPT !.kind = "returned", !.success = TRUE,
                      !.result = IF res.success THEN "text" ELSE "undefined",
                      !.team_statistics = stats,
                      !.performance_metrics = performanceMetrics,
                      !.recommendations = recommendationsOf(res)]

CeoCall(kind, pc, taskId, taskIds, completedTasks, stats, ret) ==
  [kind |-> kind, pc |-> pc, taskId |-> taskId, taskIds |-> taskIds,
   completedTasks |-> completedTasks, stats |-> stats, ret |-> ret]

\* the values Date.now() can give a new invocation: a later millisecond than
\* every earlier one, or the millisecond of the previous invocation when that
\* one is still waiting for the completion service
nowValues ==
  {Len(ceoCalls) + 1} \cup
  { ceoCalls[c].taskId.at : c \in { d \in {Len(ceoCalls)} :
                                     d > 0 /\ ceoCalls[d].pc = "awaitClaude" } }

\* what a caller of calculateSystemHealth holds: the registry and history
\* counts the method read, and the number it returned
NoHealth == [made |-> FALSE, idleAgents |-> 0, totalAgents |-> 0,
             completed |-> 0, entries |-> 0, value |-> 0]

HealthInputs ==
  { [made |-> FALSE, idleAgents |-> i, totalAgents |-> t,
     completed |-> c, entries |-> n, value |-> 0] :
       i \in 0..HealthAgents, t \in 0..HealthAgents,
       c \in 0..HealthTasks, n \in 0..HealthTasks }

\* what a direct caller of getTaskStatus holds: the id asked for and the
\* found and status members of the answer
NoLookup == [made |-> FALSE, taskId |-> 0, found |-> FALSE, status |-> "none"]

LookedUp(taskId, answer) ==
  [made |-> TRUE, taskId |-> taskId, found |-> answer.found, status |-> answer.status]

\* what a direct caller of selectBestAgent holds: the arguments and the answer
NoSelection == [made |-> FALSE, requiredSkills |-> << >>, taskDescription |-> "",
                threw |-> FALSE, agent |-> NoAgent]

Selected(inp, sel) ==
  [made |-> TRUE, requiredSkills |-> inp.requiredSkills,
   taskDescription |-> inp.taskDescription, threw |-> sel.threw, agent |-> sel.agent]

\* ---------------------------------------------------------------- actions
\* Task ids (`task-${Date.now()}-${random}`) are fresh: the n-th invocation
\* gets id n.  Wall-clock fields (assignedAt, completedAt, the deadline,
\* averageCompletionTime) and the collaborators maps are not part of the state.
InitProgram ==
  /\ teamAgents = << >>
  /\ status = [a \in Agents |-> "idle"]
  /\ currentTasks = [a \in Agents |-> << >>]
  /\ activeTasks = << >>
  /\ taskHistory = << >>
  /\ performanceMetrics =
       [tasksCompleted |-> 0, tasksAssigned |-> 0, successRate |-> [num |-> 0, den |-> 1]]
  /\ calls = << >>
  /\ registeredObject = [a \in Workers |-> 0]
  /\ ceoCalls = << >>
  /\ selection = NoSelection
  /\ clock = 0
  /\ lookup = NoLookup
  /\ userSessions = [chat \in Chats |-> 0]
  /\ sessions = << >>
  /\ keyboardShown = [chat \in Chats |-> FALSE]
  /\ callbacks = << >>
  /\ posts = << >>

Init ==
  /\ InitProgram
  /\ health = NoHealth
  /\ botClass = "AgentsTeamBot"

\* CEOAgent.registerTeamAgent for an agent that is not yet in the Map
registerTeamAgent(a) ==
  /\ \A i \in 1..Len(teamAgents) : teamAgents[i] # a
  /\ teamAgents' = Append(teamAgents, a)
  /\ registeredObject' = [registeredObject EXCEPT ![a] = 1]
  /\ UNCHANGED <<status, currentTasks, activeTasks, taskHistory, performanceMetrics,
                 calls, ceoCalls, selection, clock, health, lookup, botVars>>

\* CEOAgent.assignTask from the call to the await inside processTask: the id
\* is allocated, the agent selected, the record created and put in the active
\* map, tasksAssigned incremented, processTask entered (the agent turns busy).
\* With no agent registered selectBestAgent throws before the try block.
assignTaskCall(req) ==
  LET taskId == Len(calls) + 1
      sel    == selectBestAgent(req.requiredSkills, req.description)
  IN  IF sel.threw
      THEN /\ calls' = Append(calls,
                 Call("done", taskId, NoAgent, sel.branch, NoDeadline, NoResult, Threw("TypeError")))
           /\ UNCHANGED <<teamAgents, status, currentTasks, activeTasks, taskHistory,
                          performanceMetrics, registeredObject, ceoCalls, selection, clock, health, lookup, botVars>>
      ELSE IF sel.agent = NoAgent
      THEN /\ calls' = Append(calls,
                 Call("done", taskId, NoAgent, sel.branch, NoDeadline, NoResult,
                      Returned(FALSE, taskId, NoAgent, "No suitable agent available")))
           /\ UNCHANGED <<teamAgents, status, currentTasks, activeTasks, taskHistory,
                          performanceMetrics, registeredObject, ceoCalls, selection, clock, health, lookup, botVars>>
      ELSE LET started == processTaskStart(sel.agent, taskId)
           IN  /\ activeTasks' = (taskId :> newTask(taskId, req, sel.agent)) @@ activeTasks
               /\ performanceMetrics' =
                    [performanceMetrics EXCEPT !.tasksAssigned = @ + 1]
               /\ status' = started.st
               /\ currentTasks' = started.ct
               /\ calls' = Append(calls,
                    Call("awaitClaude", taskId, sel.agent, sel.branch,
                         calculateDeadline(req.priority), NoResult, NoReturn))
               /\ UNCHANGED <<teamAgents, taskHistory, registeredObject, ceoCalls, selection, clock, health, lookup, botVars>>

\* POST /task of the gateway: the description and the priority are validated
\* (400 otherwise), then assignTask runs
postTaskCall(req) ==
  IF req.description = "" \/ req.priority \notin validPriorities
  THEN /\ calls' = Append(calls,
             Call("done", 0, NoAgent, "none", NoDeadline, NoResult,
                  Rejected("Priority must be one of: high, medium, low")))
       /\ UNCHANGED <<teamAgents, status, currentTasks, activeTasks, taskHistory,
                      performanceMetrics, registeredObject, ceoCalls, selection, clock, health, lookup, botVars>>
  ELSE assignTaskCall(req)

\* a caller invokes CEOAgent.assignTask directly (as test_ceo.js does)
assignTask(req) ==
  /\ Len(calls) < MaxCalls
  /\ assignTaskCall(req)

\* a client posts to the gateway
postTask(req) ==
  /\ Len(calls) < MaxCalls
  /\ postTaskCall(req)

\* the same two entry points under the deeper bound
assignTaskDeep(req) ==
  /\ Len(calls) < DeepCalls
  /\ assignTaskCall(req)

postTaskDeep(req) ==
  /\ Len(calls) < DeepCalls
  /\ postTaskCall(req)

\* the completion service answers call c: processTask runs to its return
completionReturns(c, outcome) ==
  /\ calls[c].pc = "awaitClaude"
  /\ LET fin == processTaskFinish(calls[c].agent, calls[c].taskId, outcome)
     IN  /\ status' = fin.st
         /\ currentTasks' = fin.ct
         /\ calls' = [calls EXCEPT ![c].pc = "awaitProcess", ![c].procResult = fin.res]
  /\ UNCHANGED <<teamAgents, activeTasks, taskHistory, performanceMetrics,
                 registeredObject, ceoCalls, selection, clock, health, lookup, botVars>>

\* CEOAgent.assignTask resumes after `await assignedAgent.processTask(...)`:
\* the record gets its terminal status, moves to the history, the metrics are
\* recomputed and the outcome is returned
assignTaskResume(c) ==
  /\ calls[c].pc = "awaitProcess"
  /\ LET taskId == calls[c].taskId
         res    == calls[c].procResult
         task   == finishedTask(activeTasks[taskId], res)
         hist   == historyAfterMove(task)
         ret    == Returned(res.success, taskId, calls[c].agent, res.error)
     IN  /\ taskHistory' = hist
         /\ activeTasks' = activeAfterMove(taskId)
         /\ performanceMetrics' =
              [performanceMetrics EXCEPT
                 !.tasksCompleted = IF res.success THEN @ + 1 ELSE @,
                 !.successRate = successRateOf(hist)]
         /\ calls' = [calls EXCEPT ![c].pc = "done", ![c].ret = ret]
  /\ UNCHANGED <<teamAgents, status, currentTasks, registeredObject, ceoCalls, selection, clock, health, lookup, botVars>>

clearedTasks_all(a) == << >>

\* the agent's local map after the entries with status completed or failed
\* were deleted
clearedTasks(a) ==
  [t \in { u \in DOMAIN currentTasks[a] :
             currentTasks[a][u].status \notin {"completed", "failed"} }
     |-> currentTasks[a][t]]

\* Agent.clearCompletedTasks: drops the agent's finished local records
clearCompletedTasks(a) ==
  /\ \E t \in DOMAIN currentTasks[a] : currentTasks[a][t].status \in {"completed", "failed"}
  /\ currentTasks' = [currentTasks EXCEPT ![a] = clearedTasks(a)]
  /\ UNCHANGED <<teamAgents, status, activeTasks, taskHistory, performanceMetrics, calls,
                 registeredObject, ceoCalls, selection, clock, health, lookup, botVars>>

\* the steps that do not issue an invocation
Progress ==
  \/ \E a \in Workers : registerTeamAgent(a)
  \/ \E c \in 1..Len(calls) : \E outcome \in Outcomes : completionReturns(c, outcome)
  \/ \E c \in 1..Len(calls) : assignTaskResume(c)
  \/ \E a \in Agents : clearCompletedTasks(a)

Next ==
  \/ \E req \in Requests : assignTask(req)
  \/ \E req \in Requests : postTask(req)
  \/ Progress

Spec == Init /\ [][Next]_vars

\* the same behaviours under the scheduling the runtime gives: every call of
\* the completion service is answered, with a text or an error, and the event
\* loop resumes an assignTask whose awaited processTask has returned
NextLive ==
  \/ \E req \in Requests : assignTask(req)
  \/ Progress

SpecLive ==
  /\ Init /\ [][NextLive]_vars
  /\ \A c \in 1..MaxCalls :
        /\ WF_vars(c \in 1..Len(calls) /\ \E outcome \in Outcomes : completionReturns(c, outcome))
        /\ WF_vars(c \in 1..Len(calls) /\ assignTaskResume(c))

NextDeep ==
  \/ \E req \in Requests : assignTaskDeep(req)
  \/ \E req \in Requests : postTaskDeep(req)
  \/ Progress

SpecDeep == Init /\ [][NextDeep]_vars

\* a caller invokes CEOAgent.selectBestAgent directly and keeps the answer;
\* the method reads the registry and writes nothing
selectBestAgentCall(inp) ==
  /\ selection' = Selected(inp, selectBestAgent(inp.requiredSkills, inp.taskDescription))
  /\ UNCHANGED <<teamAgents, status, currentTasks, activeTasks, taskHistory,
                 performanceMetrics, calls, registeredObject, ceoCalls, clock, health, lookup, botVars>>

assignTaskSelect(req) ==
  /\ Len(calls) < SelectCalls
  /\ assignTaskCall(req)

postTaskSelect(req) ==
  /\ Len(calls) < SelectCalls
  /\ postTaskCall(req)

\* the housekeeping of the local maps, which no code of the repository calls,
\* is left out of these runs
NextSelect ==
  \/ \E inp \in SelectionInputs : selectBestAgentCall(inp)
  \/ \E req \in Requests : assignTaskSelect(req)
  \/ \E a \in Workers : registerTeamAgent(a)
  \/ \E c \in 1..Len(calls) : \E outcome \in Outcomes : completionReturns(c, outcome)
  \/ \E c \in 1..Len(calls) : assignTaskResume(c)

SpecSelect == Init /\ [][NextSelect]_vars

\* the id lists passed to aggregateResults: empty, one id, two ids (an id is
\* unknown as long as no task was given it)
TaskIdLists == { << >>, <<1>>, <<1, 2>> }

\* CEOAgent.aggregateResults up to its await: with no completed successful
\* task among the ids it returns the failure at once; otherwise the CEO's own
\* processTask is entered with the aggregation prompt
aggregateResults(taskIds, now) ==
  /\ Len(ceoCalls) < MaxCeoCalls
  /\ LET completedTasks == completedTasksOf(taskIds)
         taskId == CeoTaskId("aggregation", now)
         started == processTaskStart(CEO, taskId)
     IN  IF Len(completedTasks) = 0
         THEN /\ ceoCalls' = Append(ceoCalls,
                    CeoCall("aggregate", "done", CeoTaskId("aggregation", 0), taskIds,
                            completedTasks, NoStats,
                            AggregateFailed("No completed tasks found for aggregation")))
              /\ UNCHANGED <<status, currentTasks, clock, health, lookup, botVars>>
         ELSE /\ ceoCalls' = Append(ceoCalls,
                    CeoCall("aggregate", "awaitClaude", taskId, taskIds,
                            completedTasks, NoStats, NoCeoReturn))
              /\ status' = started.st
              /\ currentTasks' = started.ct
  /\ UNCHANGED <<teamAgents, activeTasks, taskHistory, performanceMetrics, calls,
                 registeredObject, selection, clock, health, lookup, botVars>>

\* CEOAgent.generateTeamReport up to its await: the statistics are taken and
\* the CEO's own processTask is entered with the report prompt
generateTeamReport(now) ==
  /\ Len(ceoCalls) < MaxCeoCalls
  /\ LET taskId == CeoTaskId("team-report", now)
         started == processTaskStart(CEO, taskId)
     IN  /\ ceoCalls' = Append(ceoCalls,
                CeoCall("report", "awaitClaude", taskId, << >>, << >>, teamStats,
                        NoCeoReturn))
         /\ status' = started.st
         /\ currentTasks' = started.ct
  /\ UNCHANGED <<teamAgents, activeTasks, taskHistory, performanceMetrics, calls,
                 registeredObject, selection, clock, health, lookup, botVars>>

\* the completion service answers the CEO's own call c: processTask runs to
\* its return and the method that awaited it returns its object (it writes
\* no state after the await)
ceoCompletionReturns(c, outcome) ==
  /\ ceoCalls[c].pc = "awaitClaude"
  /\ LET fin == processTaskFinish(CEO, ceoCalls[c].taskId, outcome)
         ret == IF ceoCalls[c].kind = "aggregate"
                THEN Aggregated(fin.res, agentsInvolved(ceoCalls[c].completedTasks))
                ELSE TeamReport(fin.res, ceoCalls[c].stats)
     IN  /\ status' = fin.st
         /\ currentTasks' = fin.ct
         /\ ceoCalls' = [ceoCalls EXCEPT ![c].pc = "done", ![c].ret = ret]
  /\ UNCHANGED <<teamAgents, activeTasks, taskHistory, performanceMetrics, calls,
                 registeredObject, selection, clock, health, lookup, botVars>>

NextReports ==
  \/ \E taskIds \in TaskIdLists : \E now \in nowValues : aggregateResults(taskIds, now)
  \/ \E now \in nowValues : generateTeamReport(now)
  \/ \E c \in 1..Len(ceoCalls) : \E outcome \in Outcomes : ceoCompletionReturns(c, outcome)
  \/ \E req \in Requests : assignTask(req)
  \/ Progress

SpecReports == Init /\ [][NextReports]_vars

\* CEOAgent.registerTeamAgent with another Agent object whose name is already
\* a key of the Map: Map.set replaces the value and keeps the key's position,
\* nothing is thrown.  The new object comes from the Agent constructor (idle,
\* no local records).  Taken while no processTask of the replaced object is
\* pending, so that status and currentTasks under the name are those of the
\* object the Map holds.
reRegisterTeamAgent(a) ==
  /\ \E i \in 1..Len(teamAgents) : teamAgents[i] = a
  /\ registeredObject[a] < MaxObjects
  /\ \A c \in 1..Len(calls) : calls[c].agent = a => calls[c].pc # "awaitClaude"
  /\ registeredObject' = [registeredObject EXCEPT ![a] = @ + 1]
  /\ status' = [status EXCEPT ![a] = "idle"]
  /\ currentTasks' = [currentTasks EXCEPT ![a] = << >>]
  /\ UNCHANGED <<teamAgents, activeTasks, taskHistory, performanceMetrics, calls,
                 ceoCalls, selection, clock, health, lookup, botVars>>

NextRegistry ==
  \/ \E a \in Workers : reRegisterTeamAgent(a)
  \/ \E req \in Requests : assignTaskSelect(req)
  \/ \E req \in Requests : postTaskSelect(req)
  \/ Progress

SpecRegistry == Init /\ [][NextRegistry]_vars

\* time passes: the wall clock moves on by 50 hours, past the 2 h and 24 h
\* deadlines at once and past the 72 h one the second time
ClockStep == 50 * 60 * 60 * 1000

Tick ==
  /\ clock < MaxTicks * ClockStep
  /\ clock' = clock + ClockStep
  /\ UNCHANGED <<teamAgents, status, currentTasks, activeTasks, taskHistory,
                 performanceMetrics, calls, registeredObject, ceoCalls, selection, health, lookup, botVars>>

assignTaskDeadline(req) ==
  /\ Len(calls) < SelectCalls
  /\ assignTaskCall(req)

NextDeadline ==
  \/ Tick
  \/ \E req \in DeadlineRequests : assignTaskDeadline(req)
  \/ Progress

SpecDeadline == Init /\ [][NextDeadline]_vars

\* calculateSystemHealth as a function of what it reads: the registry has
\* totalAgents workers of which idleAgents are idle, the history has `entries`
\* records of which `completed` are completed (successRate as stored by
\* updatePerformanceMetrics)
InitHealth ==
  /\ InitProgram
  /\ health \in { h \in HealthInputs :
                     h.idleAgents <= h.totalAgents /\ h.completed <= h.entries }
  /\ botClass = "AgentsTeamBot"

calculateSystemHealthCall ==
  /\ ~health.made
  /\ health' = [health EXCEPT
        !.made = TRUE,
        !.value = systemHealthOf(health.idleAgents, health.totalAgents,
                                 successRateOf([i \in 1..health.entries |->
                                    [status |-> IF i <= health.completed
                                                THEN "completed" ELSE "failed"]]))]
  /\ UNCHANGED <<teamAgents, status, currentTasks, activeTasks, taskHistory,
                 performanceMetrics, calls, registeredObject, ceoCalls, selection, clock,
                 lookup, botVars>>

NextHealth == calculateSystemHealthCall

SpecHealth == InitHealth /\ [][NextHealth]_vars

\* GET /status/:taskId of the gateway: CEOAgent.getTaskStatus is called with the
\* id of the request; it assigns nothing
getTaskStatusCall(taskId) ==
  /\ ~lookup.made
  /\ lookup' = LookedUp(taskId, getTaskStatus(taskId))
  /\ UNCHANGED <<teamAgents, status, currentTasks, activeTasks, taskHistory,
                 performanceMetrics, calls, registeredObject, ceoCalls, selection,
                 clock, health, botVars>>

\* CEOAgent.getSystemStatus: calculateSystemHealth is evaluated on the
\* registry and the stored success rate; it assigns nothing
getSystemStatus ==
  /\ ~health.made
  /\ health' = [health EXCEPT
        !.made = TRUE,
        !.idleAgents = Len(SelectSeq(teamAgents, LAMBDA a : status[a] = "idle")),
        !.totalAgents = Len(teamAgents),
        !.value = calculateSystemHealth]
  /\ UNCHANGED <<teamAgents, status, currentTasks, activeTasks, taskHistory,
                 performanceMetrics, calls, registeredObject, ceoCalls, selection,
                 clock, lookup, botVars>>

\* the ids a status request is made with: the first task's, and one that was
\* never handed out
LookupIds == {1, MaxCalls + 1}

\* the four reading operations, next to one task in flight
NextReads ==
  \/ \E taskId \in LookupIds : getTaskStatusCall(taskId)
  \/ getSystemStatus
  \/ \E taskIds \in TaskIdLists : \E now \in nowValues : aggregateResults(taskIds, now)
  \/ \E now \in nowValues : generateTeamReport(now)
  \/ \E c \in 1..Len(ceoCalls) : \E outcome \in Outcomes : ceoCompletionReturns(c, outcome)
  \/ \E req \in Requests : assignTaskSelect(req)
  \/ \E a \in Workers : registerTeamAgent(a)
  \/ \E c \in 1..Len(calls) : \E outcome \in Outcomes : completionReturns(c, outcome)
  \/ \E c \in 1..Len(calls) : assignTaskResume(c)

SpecReads == Init /\ [][NextReads]_vars

\* a registered worker that is idle is deactivated: its status, the field
\* declared as "idle, busy, offline", becomes offline
deactivate(a) ==
  /\ \E i \in 1..Len(teamAgents) : teamAgents[i] = a
  /\ status[a] = "idle"
  /\ status' = [status EXCEPT ![a] = "offline"]
  /\ UNCHANGED <<teamAgents, currentTasks, activeTasks, taskHistory, performanceMetrics,
                 calls, registeredObject, ceoCalls, selection, clock, health, lookup, botVars>>

NextOffline ==
  \/ \E a \in Workers : deactivate(a)
  \/ \E req \in Requests : assignTask(req)
  \/ \E a \in Workers : registerTeamAgent(a)
  \/ \E c \in 1..Len(calls) : \E outcome \in Outcomes : completionReturns(c, outcome)
  \/ \E c \in 1..Len(calls) : assignTaskResume(c)

SpecOffline == Init /\ [][NextOffline]_vars

\* ---------------------------------------------------------- Telegram bot
\* a session object: { state, taskData: { description, priority } }
Session(chat, state, description, priority) ==
  [chat |-> chat, state |-> state, description |-> description, priority |-> priority]

\* one handleCallbackQuery invocation that found a session object; finished
\* tells whether its submitTask ran to its end, threw whether submitTask
\* left by an exception
Callback(chat, session, priority, pc, finished, threw) ==
  [chat |-> chat, session |-> session, priority |-> priority, pc |-> pc,
   finished |-> finished, threw |-> threw]

\* the body of the POST /task request, with the session it was built from
Post(session) ==
  [chat |-> sessions[session].chat, session |-> session,
   state |-> sessions[session].state,
   description |-> sessions[session].description,
   priority |-> sessions[session].priority]

\* /task: initiateTaskSubmission puts a new session object under the chat
initiateTaskSubmission(chat) ==
  /\ Len(sessions) < MaxSessions
  /\ sessions' = Append(sessions, Session(chat, "awaiting_task_description", FALSE, "none"))
  /\ userSessions' = [userSessions EXCEPT ![chat] = Len(sessions) + 1]
  /\ UNCHANGED <<teamAgents, status, currentTasks, activeTasks, taskHistory,
                 performanceMetrics, calls, registeredObject, ceoCalls, selection,
                 clock, health, lookup, botClass, keyboardShown, callbacks, posts>>

\* a text message: handleTextMessage stores the description in the chat's
\* session when it awaits one and sends the priority keyboard (sent: the
\* message reached the chat); otherwise it only answers
handleTextMessage(chat, sent) ==
  /\ IF userSessions[chat] # 0
        /\ sessions[userSessions[chat]].state = "awaiting_task_description"
     THEN /\ sessions' = [sessions EXCEPT ![userSessions[chat]].description = TRUE,
                                          ![userSessions[chat]].state = "selecting_priority"]
          /\ keyboardShown' = [keyboardShown EXCEPT ![chat] = @ \/ sent]
     ELSE UNCHANGED <<sessions, keyboardShown>>
  /\ UNCHANGED <<teamAgents, status, currentTasks, activeTasks, taskHistory,
                 performanceMetrics, calls, registeredObject, ceoCalls, selection,
                 clock, health, lookup, botClass, userSessions, callbacks, posts>>

\* /cancel: cancelOperation deletes the chat's entry if there is one
cancelOperation(chat) ==
  /\ userSessions' = [userSessions EXCEPT ![chat] = 0]
  /\ UNCHANGED <<teamAgents, status, currentTasks, activeTasks, taskHistory,
                 performanceMetrics, calls, registeredObject, ceoCalls, selection,
                 clock, health, lookup, botClass, sessions, keyboardShown, callbacks,
                 posts>>

\* a press of a button of a priority keyboard of the chat: handleCallbackQuery
\* up to `await this.bot.answerCallbackQuery(...)`.  Without a session it
\* returns.  AgentsTeamBot stores the priority before that await,
\* AgentsTeamBotFixed after it.  The state of the session is not looked at.
handleCallbackQuery(chat, priority) ==
  /\ keyboardShown[chat]
  /\ Len(callbacks) < MaxPresses
  /\ LET session == userSessions[chat]
     IN  IF session = 0
         THEN UNCHANGED <<sessions, callbacks>>
         ELSE /\ callbacks' = Append(callbacks,
                   Callback(chat, session, priority, "answerCallbackQuery", FALSE, FALSE))
              /\ sessions' = IF botClass = "AgentsTeamBot"
                             THEN [sessions EXCEPT ![session].priority = priority]
                             ELSE sessions
  /\ UNCHANGED <<teamAgents, status, currentTasks, activeTasks, taskHistory,
                 performanceMetrics, calls, registeredObject, ceoCalls, selection,
                 clock, health, lookup, botClass, userSessions, keyboardShown, posts>>

\* a call of the Telegram API that invocation h awaits returns (ok) or
\* rejects.  After answerCallbackQuery submitTask is entered: AgentsTeamBot
\* does not await its sendMessage calls and goes on to the fetch;
\* AgentsTeamBotFixed awaits every sendMessage, a rejected one inside the try
\* block leads to the catch block, and a rejected one inside the catch block
\* leaves submitTask before `this.userSessions.delete(chatId)`.
telegramReturns(h, ok) ==
  LET cb == callbacks[h]
      go(pc) == [callbacks EXCEPT ![h].pc = pc]
      withPriority == [sessions EXCEPT ![cb.session].priority = cb.priority]
  IN  /\ cb.pc \in {"answerCallbackQuery", "sendSubmitting", "sendReply", "sendError"}
      /\ CASE cb.pc = "answerCallbackQuery" /\ ~ok ->
                /\ callbacks' = go("done")
                /\ UNCHANGED <<sessions, posts, userSessions>>
           [] cb.pc = "answerCallbackQuery" /\ ok /\ botClass = "AgentsTeamBot" ->
                /\ callbacks' = go("fetch")
                /\ posts' = Append(posts, Post(cb.session))
                /\ UNCHANGED <<sessions, userSessions>>
           [] cb.pc = "answerCallbackQuery" /\ ok /\ botClass # "AgentsTeamBot" ->
                /\ callbacks' = go("sendSubmitting")
                /\ sessions' = withPriority
                /\ UNCHANGED <<posts, userSessions>>
           [] cb.pc = "sendSubmitting" /\ ok ->
                /\ callbacks' = go("fetch")
                /\ posts' = Append(posts, Post(cb.session))
                /\ UNCHANGED <<sessions, userSessions>>
           [] cb.pc \in {"sendSubmitting", "sendReply"} /\ ~ok ->
                /\ callbacks' = go("sendError")
                /\ UNCHANGED <<sessions, posts, userSessions>>
           [] cb.pc \in {"sendReply", "sendError"} /\ ok ->
                /\ callbacks' = [callbacks EXCEPT ![h].pc = "done", ![h].finished = TRUE]
                /\ userSessions' = [userSessions EXCEPT ![cb.chat] = 0]
                /\ UNCHANGED <<sessions, posts>>
           [] cb.pc = "sendError" /\ ~ok ->
                /\ callbacks' = [callbacks EXCEPT ![h].pc = "done", ![h].finished = TRUE,
                                                  ![h].threw = TRUE]
                /\ UNCHANGED <<sessions, posts, userSessions>>
      /\ UNCHANGED <<teamAgents, status, currentTasks, activeTasks, taskHistory,
                     performanceMetrics, calls, registeredObject, ceoCalls, selection,
                     clock, health, lookup, botClass, keyboardShown>>

\* the fetch of invocation h returns.  AgentsTeamBot sends its reply without
\* awaiting it and deletes the chat's entry; AgentsTeamBotFixed awaits the
\* reply, or after a rejected fetch the error message of the catch block.
gatewayReturns(h, answer) ==
  LET cb == callbacks[h]
  IN  /\ cb.pc = "fetch"
      /\ IF botClass = "AgentsTeamBot"
         THEN /\ callbacks' = [callbacks EXCEPT ![h].pc = "done", ![h].finished = TRUE]
              /\ userSessions' = [userSessions EXCEPT ![cb.chat] = 0]
         ELSE /\ callbacks' = [callbacks EXCEPT ![h].pc =
                                 IF answer = "networkError" THEN "sendError" ELSE "sendReply"]
              /\ UNCHANGED userSessions
      /\ UNCHANGED <<teamAgents, status, currentTasks, activeTasks, taskHistory,
                     performanceMetrics, calls, registeredObject, ceoCalls, selection,
                     clock, health, lookup, botClass, sessions, keyboardShown, posts>>

InitBot ==
  /\ InitProgram
  /\ health = NoHealth
  /\ botClass \in BotClasses

NextBot ==
  \/ \E chat \in Chats : initiateTaskSubmission(chat)
  \/ \E chat \in Chats : \E sent \in BOOLEAN : handleTextMessage(chat, sent)
  \/ \E chat \in Chats : cancelOperation(chat)
  \/ \E chat \in Chats : \E priority \in validPriorities : handleCallbackQuery(chat, priority)
  \/ \E h \in 1..Len(callbacks) : \E ok \in BOOLEAN : telegramReturns(h, ok)
  \/ \E h \in 1..Len(callbacks) : \E answer \in GatewayAnswers : gatewayReturns(h, answer)

SpecBot == InitBot /\ [][NextBot]_vars

\* ----------------------------------------------------------------- claims
\* the invocations that created a task record
created == { c \in 1..Len(calls) : calls[c].agent # NoAgent }

\* the invocations whose processTask has started and not returned
inFlight == { c \in 1..Len(calls) : calls[c].pc = "awaitClaude" }

\* how often an id occurs in the history
timesInHistory(taskId) ==
  Cardinality({ i \in 1..Len(taskHistory) : taskHistory[i].id = taskId })

\* the task ids assignTask has returned to its callers
returnedIds ==
  { calls[c].ret.taskId : c \in { d \in 1..Len(calls) : calls[d].ret.kind = "returned" } }

\* the step issues a new invocation that reached assignTask
issued(c) == Len(calls) + 1 = c /\ Len(calls') = c /\ calls'[c].ret.kind # "rejected"

C2_ExactlyOneSet ==
  \A c \in created :
     \/ calls[c].taskId \in DOMAIN activeTasks /\ timesInHistory(calls[c].taskId) = 0
     \/ calls[c].taskId \notin DOMAIN activeTasks /\ timesInHistory(calls[c].taskId) = 1

\* one task has moved to the history while another one is still active
C2_Witness ==
  /\ Len(taskHistory) >= 1
  /\ DOMAIN activeTasks # {}
  /\ \E c \in created : calls[c].pc = "done"

\* C3: an id assignTask has returned is found by getTaskStatus from then on,
\* and a record that is in the history stays there, unchanged in position,
\* and never is in the active map again.
C3_ReturnedIdStaysFound ==
  [][ /\ \A t \in returnedIds' : (getTaskStatus(t).found)'
      /\ returnedIds \subseteq returnedIds'
      /\ \A i \in 1..Len(taskHistory) :
            /\ Len(taskHistory') >= i
            /\ taskHistory'[i].id = taskHistory[i].id
            /\ taskHistory[i].id \notin DOMAIN activeTasks'
            /\ (timesInHistory(taskHistory[i].id))' = 1 ]_vars

\* an id was returned, is in the history, and invocations were issued after it
C3_Witness ==
  \E c \in 1..Len(calls) :
     /\ calls[c].ret.kind = "returned"
     /\ timesInHistory(calls[c].ret.taskId) = 1
     /\ \E d \in created : d > c /\ calls[d].pc = "done"

\* C4: assignTask never throws - every finished invocation has returned an
\* object with a success flag.
C4_SubmitNeverThrows ==
  \A c \in 1..Len(calls) : calls[c].pc = "done" => calls[c].ret.kind # "threw"

\* C5: no agent has more than one task in flight.
C5_OneTaskInFlight ==
  \A a \in Workers : Cardinality({ c \in inFlight : calls[c].agent = a }) <= 1

\* C6: agent B is busy with the first invocation, agent A is idle and takes
\* the second through the idle branch, and a third is issued before anything
\* has completed: the third goes through the least-busy fallback and not to A.
C6_IdleWorkerNotHandedBoth ==
  ( /\ Len(calls) = 3
    /\ inFlight = {1, 2, 3}
    /\ calls[2].branch = "idle"
    /\ calls[1].agent # calls[2].agent )
  => /\ calls[3].branch = "leastBusy"
     /\ calls[3].agent # calls[2].agent

\* C7: processTask always returns a result, with success = false and the
\* error message when the completion service failed, and the agent is idle
\* when it returns, with the local record closed accordingly.
C7_ProcessTaskReturnsIdle ==
  [][ \A c \in 1..Len(calls) :
        (calls[c].pc = "awaitClaude" /\ calls'[c].pc = "awaitProcess")
        => /\ status'[calls[c].agent] = "idle"
           /\ calls'[c].procResult # NoResult
           /\ calls'[c].procResult.success = (calls'[c].procResult.error = "none")
           /\ currentTasks'[calls[c].agent][calls[c].taskId].status =
                IF calls'[c].procResult.success THEN "completed" ELSE "failed" ]_vars

\* processTask has returned a failure and its agent is idle again
C7_Witness ==
  \E c \in 1..Len(calls) :
     /\ calls[c].pc = "awaitProcess"
     /\ ~calls[c].procResult.success
     /\ calls[c].procResult.error = "ServiceError"
     /\ status[calls[c].agent] = "idle"

\* C8: an invocation for which no agent was found returned the
\* "No suitable agent available" failure, and created no ledger entry.
C8_NoSuitableWorkerSignalled ==
  \A c \in 1..Len(calls) :
     (calls[c].pc = "done" /\ calls[c].agent = NoAgent /\ calls[c].ret.kind # "rejected")
     => /\ calls[c].ret.kind = "returned"
        /\ calls[c].ret.error = "No suitable agent available"
        /\ calls[c].taskId \notin DOMAIN activeTasks
        /\ timesInHistory(calls[c].taskId) = 0

\* C9: no task with a priority other than high, medium or low is in the ledger.
C9_InvalidPriorityRejected ==
  /\ \A t \in DOMAIN activeTasks : activeTasks[t].priority \in validPriorities
  /\ \A i \in 1..Len(taskHistory) : taskHistory[i].priority \in validPriorities

\* the tasks an agent has started and not finished
inFlightOf(a) ==
  Cardinality({ t \in DOMAIN currentTasks[a] : currentTasks[a][t].status = "processing" })

\* C10: with agents registered and none of them idle, the fallback returns
\* the first registered agent among those with the fewest tasks in flight.
C10_FallbackFewestInFlight ==
  (Len(teamAgents) > 0 /\ Len(availableAgents) = 0)
  => \E i \in 1..Len(teamAgents) :
        /\ selectBestAgent(<< >>, "Plan costs").agent = teamAgents[i]
        /\ \A j \in 1..Len(teamAgents) : inFlightOf(teamAgents[i]) <= inFlightOf(teamAgents[j])
        /\ \A j \in 1..(i - 1) : inFlightOf(teamAgents[j]) > inFlightOf(teamAgents[i])

\* the registered workers, and those of them that are idle
registered == { teamAgents[i] : i \in 1..Len(teamAgents) }

idleWorkers == { a \in registered : status[a] = "idle" }

\* position of a registered worker in registration order
registeredAt(a) == CHOOSE i \in 1..Len(teamAgents) : teamAgents[i] = a

claimedScore(a, requiredSkills, taskDescription) ==
  LET tags == { toLowerCase(chars(specialKnowledge(a)[k])) :
                  k \in 1..Len(specialKnowledge(a)) }
      hit(i) == \E tag \in tags : includes(tag, toLowerCase(chars(requiredSkills[i])))
      bonus == IF \E kw \in roleKeywords(role(a)) :
                     includes(toLowerCase(chars(taskDescription)), kw)
               THEN 15 ELSE 0
  IN  10 * Cardinality({ i \in 1..Len(requiredSkills) : hit(i) }) + bonus

\* C12: when at least one worker is idle, selectBestAgent returns an idle
\* worker whose score (10 per matched required skill, 15 for a role keyword in
\* the description) is maximal among the idle workers, and among idle workers
\* of equal score the one registered first.
C12_BestIdleFirstRegistered ==
  [][ (selection' # selection /\ idleWorkers # {})
      => LET s     == selection'
             sc(a) == claimedScore(a, s.requiredSkills, s.taskDescription)
         IN  /\ ~s.threw
             /\ s.agent \in idleWorkers
             /\ \A b \in idleWorkers :
                   /\ score(b, s.requiredSkills, s.taskDescription) = sc(b)
                   /\ \/ sc(b) < sc(s.agent)
                      \/ sc(b) = sc(s.agent) /\ registeredAt(s.agent) <= registeredAt(b) ]_vars

\* two idle workers tie with a positive score and the first registered one,
\* here the one registered after the other in the gateway's list, was returned
C12_Witness ==
  /\ selection.made
  /\ selection.requiredSkills = <<"Analysis">>
  /\ teamAgents = <<"lil_Finance_Analyst", "lil_SEO_Specialist">>
  /\ idleWorkers = registered
  /\ claimedScore("lil_SEO_Specialist", selection.requiredSkills, selection.taskDescription)
       = claimedScore("lil_Finance_Analyst", selection.requiredSkills, selection.taskDescription)
  /\ selection.agent = "lil_Finance_Analyst"

\* C14: with every registered worker idle, required skills ["SEO"] and a
\* description containing "SEO", the SEO specialist (tagged, among others,
\* "Search Engine Optimization") scores at least 10 while the other workers
\* score nothing, and it is the worker selected wherever it was registered.
C14_SeoSpecialistSelected ==
  [][ (/\ selection' # selection
       /\ selection'.requiredSkills = <<"SEO">>
       /\ selection'.taskDescription = "Analyze SEO opportunities"
       /\ "lil_SEO_Specialist" \in registered
       /\ idleWorkers = registered
       /\ \A b \in registered \ {"lil_SEO_Specialist"} :
             score(b, <<"SEO">>, "Analyze SEO opportunities") = 0)
      => /\ score("lil_SEO_Specialist", <<"SEO">>, "Analyze SEO opportunities") >= 10
         /\ selection'.agent = "lil_SEO_Specialist" ]_vars

\* the SEO specialist was registered last and was selected all the same
C14_Witness ==
  /\ selection.made
  /\ selection.requiredSkills = <<"SEO">>
  /\ selection.taskDescription = "Analyze SEO opportunities"
  /\ teamAgents = <<"lil_Finance_Analyst", "lil_SEO_Specialist">>
  /\ idleWorkers = registered
  /\ selection.agent = "lil_SEO_Specialist"

\* the history entries whose status is completed
completedInHistory == { i \in 1..Len(taskHistory) : taskHistory[i].status = "completed" }

\* C19: the stored successRate is never stale: it is the percentage of history
\* entries with status completed, and 0 while the history is empty.
C19_SuccessRateNotStale ==
  IF Len(taskHistory) = 0
  THEN performanceMetrics.successRate.num = 0
  ELSE performanceMetrics.successRate.num * Len(taskHistory)
         = 100 * Cardinality(completedInHistory) * performanceMetrics.successRate.den

\* one task completed and one failed: the stored rate is 50
C19_Witness ==
  /\ Len(taskHistory) = 2
  /\ Cardinality(completedInHistory) = 1
  /\ performanceMetrics.successRate.num = 50 * performanceMetrics.successRate.den

\* C20: the system health is an integer between 0 and 100 in every reachable
\* state, with or without registered workers and with or without history.
C20_HealthInRange == calculateSystemHealth \in 0..100

\* every worker idle and every task completed: the health is 100; and the
\* halves of the two scores add up between the bounds too
C20_Witness ==
  /\ Len(teamAgents) > 0
  /\ Len(taskHistory) > 0
  /\ calculateSystemHealth = 100

\* C15: registering under a name that is already registered leaves the
\* registry as it was: the name stays mapped to the worker object it was
\* mapped to (the registration fails with DuplicateWorker).
C15_DuplicateLeavesRegistry ==
  [][ \A a \in registered : registeredObject'[a] = registeredObject[a] ]_vars

\* a requested id contributes: the history holds it with status completed
\* and a successful result
contributes(taskId) ==
  \E i \in 1..Len(taskHistory) :
     /\ taskHistory[i].id = taskId
     /\ taskHistory[i].status = "completed"
     /\ taskHistory[i].result.success

\* C16: aggregateResults over ids none of which is a completed, successful
\* history entry (unknown, still active, failed, or no id at all) returns the
\* failure 'No completed tasks found for aggregation', makes no completion
\* call and changes no state.
C16_NothingToAggregate ==
  [][ \A c \in {Len(ceoCalls) + 1} :
        (/\ Len(ceoCalls') = c
         /\ ceoCalls'[c].kind = "aggregate"
         /\ \A i \in 1..Len(ceoCalls'[c].taskIds) : ~contributes(ceoCalls'[c].taskIds[i]))
        => /\ ceoCalls'[c].pc = "done"
           /\ ceoCalls'[c].ret.kind = "returned"
           /\ ~ceoCalls'[c].ret.success
           /\ ceoCalls'[c].ret.error = "No completed tasks found for aggregation"
           /\ UNCHANGED <<teamAgents, status, currentTasks, activeTasks, taskHistory,
                          performanceMetrics>> ]_vars

\* an aggregation over a failed task and a task still active was refused
C16_Witness ==
  \E c \in 1..Len(ceoCalls) :
     /\ ceoCalls[c].kind = "aggregate"
     /\ ceoCalls[c].taskIds = <<1, 2>>
     /\ ceoCalls[c].ret.error = "No completed tasks found for aggregation"
     /\ \E i \in 1..Len(taskHistory) :
           taskHistory[i].id = 1 /\ taskHistory[i].status = "failed"
     /\ 2 \in DOMAIN activeTasks
     /\ status[CEO] = "idle"

\* C17: the tasks an aggregation synthesizes are exactly the requested ids
\* that are in the history with status completed and a successful result at
\* the time of the call (active, failed and unknown ids contribute nothing),
\* and agents_involved is exactly the set of workers of those tasks.
C17_AggregateInputs ==
  [][ \A c \in 1..Len(ceoCalls') :
        /\ (c = Len(ceoCalls) + 1 /\ ceoCalls'[c].kind = "aggregate")
           => { ceoCalls'[c].completedTasks[i].id :
                  i \in 1..Len(ceoCalls'[c].completedTasks) }
              = { t \in { ceoCalls'[c].taskIds[i] : i \in 1..Len(ceoCalls'[c].taskIds) } :
                    contributes(t) }
        /\ (/\ c <= Len(ceoCalls)
            /\ ceoCalls[c].kind = "aggregate"
            /\ ceoCalls[c].pc = "awaitClaude"
            /\ ceoCalls'[c].pc = "done")
           => ceoCalls'[c].ret.agents_involved
              = { taskHistory[i].assignedAgent :
                    i \in { j \in 1..Len(taskHistory) :
                              \E k \in 1..Len(ceoCalls[c].completedTasks) :
                                 ceoCalls[c].completedTasks[k].id = taskHistory[j].id } } ]_vars

\* an aggregation over a completed and a failed task returned: only the
\* completed one was synthesized and only its worker is named
C17_Witness ==
  \E c \in 1..Len(ceoCalls) :
     /\ ceoCalls[c].kind = "aggregate"
     /\ ceoCalls[c].pc = "done"
     /\ ceoCalls[c].taskIds = <<1, 2>>
     /\ Len(ceoCalls[c].completedTasks) = 1
     /\ Len(taskHistory) = 2
     /\ Len(teamAgents) = 2
     /\ Cardinality(ceoCalls[c].ret.agents_involved) = 1

\* C18: generateTeamReport always returns a report object carrying the
\* statistics taken at the call; when the narrative could not be generated
\* the report says 'Failed to generate insights' instead of failing.
C18_ReportNeverFails ==
  [][ \A c \in 1..Len(ceoCalls) :
        (/\ ceoCalls[c].kind = "report"
         /\ ceoCalls[c].pc = "awaitClaude"
         /\ ceoCalls'[c].pc = "done")
        => /\ ceoCalls'[c].ret.kind = "returned"
           /\ ceoCalls'[c].ret.team_statistics = ceoCalls[c].stats
           /\ ceoCalls'[c].ret.recommendations =
                IF ceoCalls'[c].ret.result = "undefined"
                THEN "Failed to generate insights"
                ELSE "Included in CEO insights" ]_vars

\* the completion service failed and the report came back with the marker
C18_Witness ==
  \E c \in 1..Len(ceoCalls) :
     /\ ceoCalls[c].kind = "report"
     /\ ceoCalls[c].ret.kind = "returned"
     /\ ceoCalls[c].ret.result = "undefined"
     /\ ceoCalls[c].ret.recommendations = "Failed to generate insights"
     /\ ceoCalls[c].ret.team_statistics.total_agents > 0

\* C21: the system health is round(50 * idle/total + min(successRate/2, 50)),
\* the first term being 0 without workers: the returned integer H is the one
\* with H - 1/2 <= that sum < H + 1/2; 2 of 4 workers idle with a success
\* rate of 80 give 65.
C21_HealthFormula ==
  health.made =>
    LET t   == IF health.totalAgents > 0 THEN health.totalAgents ELSE 1
        n   == IF health.entries > 0 THEN health.entries ELSE 1
        \* successRate / 2 = 50 * completed / entries, capped at 50
        p   == IF health.completed > n THEN n ELSE health.completed
        num == 50 * health.idleAgents * n + 50 * p * t
        den == t * n
        H   == health.value
    IN  /\ (2 * H - 1) * den <= 2 * num
        /\ 2 * num < (2 * H + 1) * den
        /\ (/\ health.idleAgents = 2 /\ health.totalAgents = 4
            /\ health.completed = 4 /\ health.entries = 5) => H = 65

\* the health was computed for 2 of 4 workers idle and 4 of 5 tasks completed
C21_Witness ==
  /\ health.made
  /\ health.idleAgents = 2 /\ health.totalAgents = 4
  /\ health.completed = 4 /\ health.entries = 5
  /\ health.value = 65

\* C22: for a valid priority the deadline is the instant of the call plus
\* 2 hours (high), 24 hours (medium) or 72 hours (low), in milliseconds, and
\* that is the deadline assignTask hands to the worker with the task.
C22_DeadlineByPriority ==
  [][ \A c \in {Len(calls) + 1} :
        (/\ Len(calls') = c
         /\ calls'[c].agent # NoAgent
         /\ activeTasks'[c].priority \in validPriorities)
        => calls'[c].deadline =
             clock + (CASE activeTasks'[c].priority = "high" -> 7200000
                        [] activeTasks'[c].priority = "medium" -> 86400000
                        [] activeTasks'[c].priority = "low" -> 259200000) ]_vars

\* a low-priority task submitted 50 hours after the start got the deadline
\* 122 hours
C22_Witness ==
  \E c \in 1..Len(calls) :
     /\ calls[c].agent # NoAgent
     /\ c \in DOMAIN activeTasks
     /\ activeTasks[c].priority = "low"
     /\ calls[c].deadline = 439200000

\* the invocations whose task has been finalized
finalized == { c \in created : calls[c].pc = "done" }

\* C23: finalizing a task touches only that task: the other records of the
\* active map stay as they are and where they are, and the history only grows
\* by the finalized record.  And the outcome does not depend on the order in
\* which tasks finish: the history holds exactly the finalized tasks, each
\* with the status of its own result, tasksCompleted is the number of
\* successful ones and successRate their share.
C23_FinalizeIndependent ==
  /\ [][ \A c \in created :
           (calls[c].pc = "awaitProcess" /\ calls'[c].pc = "done")
           => /\ DOMAIN activeTasks' = DOMAIN activeTasks \ {calls[c].taskId}
              /\ \A t \in DOMAIN activeTasks' : activeTasks'[t] = activeTasks[t]
              /\ Len(taskHistory') = Len(taskHistory) + 1
              /\ SubSeq(taskHistory', 1, Len(taskHistory)) = taskHistory
              /\ taskHistory'[Len(taskHistory')].id = calls[c].taskId ]_vars
  /\ [] LET ok == { c \in finalized : calls[c].procResult.success }
        IN  /\ { [id |-> taskHistory[i].id, status |-> taskHistory[i].status] :
                    i \in 1..Len(taskHistory) }
                = { [id |-> calls[c].taskId,
                     status |-> IF c \in ok THEN "completed" ELSE "failed"] :
                      c \in finalized }
            /\ Len(taskHistory) = Cardinality(finalized)
            /\ performanceMetrics.tasksCompleted = Cardinality(ok)
            /\ performanceMetrics.successRate.num * Cardinality(finalized)
                 = 100 * Cardinality(ok) * performanceMetrics.successRate.den
                      * (IF finalized = {} THEN 0 ELSE 1)

\* two tasks were in flight together and finished in the reverse order of
\* their submission, one completed and one failed
C23_Witness ==
  /\ Len(taskHistory) = 2
  /\ taskHistory[1].id = 2
  /\ taskHistory[2].id = 1
  /\ taskHistory[1].status # taskHistory[2].status

\* the history holds the task with a terminal status
inHistoryTerminal(t) ==
  \E i \in 1..Len(taskHistory) :
     taskHistory[i].id = t /\ taskHistory[i].status \in {"completed", "failed"}

\* C24: provided every call of the completion service returns, every task
\* that is in the active map is eventually in the history as completed or
\* failed, and every worker that is busy is eventually idle again.
C24_EveryTaskTerminates ==
  /\ \A t \in 1..MaxCalls : (t \in DOMAIN activeTasks) ~> inHistoryTerminal(t)
  /\ \A a \in Workers : (status[a] = "busy") ~> (status[a] = "idle")

\* both tasks are in the history, one of them failed, and every worker that
\* worked is idle again
C24_Witness ==
  /\ Len(taskHistory) = 2
  /\ DOMAIN activeTasks = {}
  /\ \E i \in 1..2 : taskHistory[i].status = "failed"
  /\ \A a \in Workers : status[a] = "idle"

\* C25: tasksAssigned is the number of tasks in the active map plus the
\* number in the history, and tasksCompleted is the number of history
\* entries with status completed.
C25_CountersMatchLedger ==
  /\ performanceMetrics.tasksAssigned
       = Cardinality(DOMAIN activeTasks) + Len(taskHistory)
  /\ performanceMetrics.tasksCompleted = Cardinality(completedInHistory)

\* one task is active, one failed and none completed: the counters are 2 and 0
C25_Witness ==
  /\ Cardinality(DOMAIN activeTasks) = 1
  /\ Len(taskHistory) = 1
  /\ taskHistory[1].status = "failed"
  /\ performanceMetrics.tasksAssigned = 2
  /\ performanceMetrics.tasksCompleted = 0

\* C26: a record in the active map has status assigned, progress 0 and no
\* result; a record in the history has status completed or failed, its
\* completedAt set and progress 100; and a history record never changes.
C26_StatusMatchesMembership ==
  /\ [] /\ \A t \in DOMAIN activeTasks :
             /\ activeTasks[t].status = "assigned"
             /\ activeTasks[t].progress = 0
             /\ activeTasks[t].result = NoResult
             /\ ~activeTasks[t].completed
        /\ \A i \in 1..Len(taskHistory) :
             /\ taskHistory[i].status \in {"completed", "failed"}
             /\ taskHistory[i].completed
             /\ taskHistory[i].progress = 100
  /\ [][ \A i \in 1..Len(taskHistory) :
           /\ i <= Len(taskHistory')
           /\ taskHistory'[i] = taskHistory[i] ]_vars

\* an assigned task in the active map next to a failed one in the history
C26_Witness ==
  /\ \E t \in DOMAIN activeTasks : activeTasks[t].status = "assigned"
  /\ \E i \in 1..Len(taskHistory) :
        taskHistory[i].status = "failed" /\ taskHistory[i].progress = 100

\* the worker's local record of a history entry, where the worker still has
\* one, carries the entry's status
historyMatchesLocal ==
  \A i \in 1..Len(taskHistory) :
     LET h == taskHistory[i]
     IN  h.id \in DOMAIN currentTasks[h.assignedAgent]
         => currentTasks[h.assignedAgent][h.id].status = h.status

\* C27, as stated: the local record of a task in the history carries the
\* ledger's status (completed or failed), and the local record of every task
\* in the active map is processing.
C27_LocalMatchesLedger ==
  /\ historyMatchesLocal
  /\ \A t \in DOMAIN activeTasks :
        /\ t \in DOMAIN currentTasks[activeTasks[t].assignedAgent]
        /\ currentTasks[activeTasks[t].assignedAgent][t].status = "processing"

\* C27, amended: the local record of a task in the history carries the
\* ledger's status, and a worker loses a local record only by clearing its
\* finished records; the local record of a task in the active map is
\* processing until the worker's processTask has returned, and from then
\* until assignTask resumes and finalizes the task it already carries the
\* outcome (completed or failed) while the ledger still says assigned.
C27_LocalMatchesLedgerOnceFinalized ==
  /\ [] /\ historyMatchesLocal
        /\ \A c \in created :
             LET t == calls[c].taskId
                 w == calls[c].agent
             IN  t \in DOMAIN activeTasks
                 => /\ calls[c].pc = "awaitClaude"
                         => /\ t \in DOMAIN currentTasks[w]
                            /\ currentTasks[w][t].status = "processing"
                    /\ (calls[c].pc = "awaitProcess" /\ t \in DOMAIN currentTasks[w])
                         => currentTasks[w][t].status =
                              IF calls[c].procResult.success THEN "completed" ELSE "failed"
  /\ [][ \A w \in Workers :
           \A t \in DOMAIN currentTasks[w] :
              t \notin DOMAIN currentTasks'[w]
              => /\ currentTasks[w][t].status \in {"completed", "failed"}
                 /\ \A u \in DOMAIN currentTasks'[w] :
                       currentTasks'[w][u].status = "processing"
                 /\ UNCHANGED <<activeTasks, taskHistory, status>> ]_vars

\* a failed task is in the history with its local record failed, and another
\* task, whose worker has returned, is still in the active map with a local
\* record that is already completed
C27_Witness ==
  /\ \E i \in 1..Len(taskHistory) :
        /\ taskHistory[i].status = "failed"
        /\ taskHistory[i].id \in DOMAIN currentTasks[taskHistory[i].assignedAgent]
  /\ \E c \in created :
        /\ calls[c].pc = "awaitProcess"
        /\ calls[c].taskId \in DOMAIN activeTasks
        /\ currentTasks[calls[c].agent][calls[c].taskId].status = "completed"

\* C28: nothing times a task out or cancels it.  While the completion call
\* of a task has not returned the task is in the active map with status
\* assigned, and its worker, if no other task of it has returned in the
\* meantime, is busy, whether the deadline has passed or not; a task leaves
\* the active map only in the step that resumes its own assignTask, and a
\* worker turns from busy to idle only in a step in which a completion call
\* made for it returns.
C28_NoTimeoutNoCancel ==
  /\ [] \A c \in inFlight :
          /\ calls[c].taskId \in DOMAIN activeTasks
          /\ activeTasks[calls[c].taskId].status = "assigned"
          /\ (\A d \in created : calls[d].agent = calls[c].agent => d = c)
               => status[calls[c].agent] = "busy"
  /\ [][ /\ \A c \in created :
             (calls[c].taskId \in DOMAIN activeTasks
              /\ calls[c].taskId \notin DOMAIN activeTasks')
             => calls[c].pc = "awaitProcess" /\ calls'[c].pc = "done"
         /\ \A a \in Workers :
             (status[a] = "busy" /\ status'[a] = "idle")
             => \E c \in inFlight :
                   calls[c].agent = a /\ calls'[c].pc = "awaitProcess" ]_vars

\* the clock is 98 hours past the deadline of a task whose completion call
\* has not returned: the task is still active and its worker still busy
C28_Witness ==
  \E c \in inFlight :
     /\ clock > calls[c].deadline
     /\ calls[c].taskId \in DOMAIN activeTasks
     /\ status[calls[c].agent] = "busy"

\* C29: the statistics of a returned team report are a snapshot of one
\* instant: performance_metrics.tasksCompleted equals completed_tasks and
\* performance_metrics.tasksAssigned equals active_tasks + completed_tasks +
\* failed_tasks, also when a task is assigned or finalized while the
\* report's narrative call is pending.
C29_ReportIsOneSnapshot ==
  \A c \in 1..Len(ceoCalls) :
     (ceoCalls[c].kind = "report" /\ ceoCalls[c].pc = "done")
     => LET ret == ceoCalls[c].ret
        IN  /\ ret.performance_metrics.tasksCompleted = ret.team_statistics.completed_tasks
            /\ ret.performance_metrics.tasksAssigned =
                 ret.team_statistics.active_tasks + ret.team_statistics.completed_tasks
                 + ret.team_statistics.failed_tasks

\* C30: aggregateResults reports success only when its synthesis call
\* succeeded: a returned object with success = true carries the synthesized
\* text, and a failed synthesis call gives success = false with an error.
C30_SuccessOnlyIfSynthesized ==
  \A c \in 1..Len(ceoCalls) :
     (ceoCalls[c].kind = "aggregate" /\ ceoCalls[c].pc = "done")
     => LET ret == ceoCalls[c].ret
        IN  IF ret.success THEN ret.result = "text" ELSE ret.error # "none"

\* C31: the outcome assignTask returns agrees with the ledger: the history
\* holds exactly one record with the returned taskId, its status is completed
\* when success is true and failed when success is false, and its
\* assignedAgent is the returned assignedAgent.
C31_OutcomeAgreesWithLedger ==
  \A c \in 1..Len(calls) :
     calls[c].ret.kind = "returned"
     => LET ret  == calls[c].ret
            recs == { i \in 1..Len(taskHistory) : taskHistory[i].id = ret.taskId }
        IN  /\ Cardinality(recs) = 1
            /\ \A i \in recs :
                  /\ ret.success <=> taskHistory[i].status = "completed"
                  /\ ~ret.success <=> taskHistory[i].status = "failed"
                  /\ taskHistory[i].assignedAgent = ret.assignedAgent

\* a successful and a failed outcome were returned by different workers'
\* tasks
C31_Witness ==
  \E c, d \in 1..Len(calls) :
     /\ calls[c].ret.kind = "returned" /\ calls[c].ret.success
     /\ calls[d].ret.kind = "returned" /\ ~calls[d].ret.success
     /\ calls[c].ret.assignedAgent # calls[d].ret.assignedAgent

\* a local record of the agent is in processing state
hasProcessing(a) ==
  \E t \in DOMAIN currentTasks[a] : currentTasks[a][t].status = "processing"

\* C32: a worker's status reflects its in-flight work in every state: it is
\* idle only if the worker has no local record in processing state, and busy
\* only if it has at least one.
C32_StatusReflectsInFlight ==
  \A a \in Workers :
     /\ status[a] = "idle" => ~hasProcessing(a)
     /\ status[a] = "busy" => hasProcessing(a)

\* the task ids a caller can ask for: those handed out so far, and two that
\* were never handed out
askedIds == 0..(Len(calls) + 1)

\* C33: getTaskStatus reports the task's lifecycle status: for a task in the
\* active map found = true with status assigned; for a task in the history
\* found = true with status failed when the worker's result was a failure
\* and completed when it was a success; for an id in neither, found = false.
C33_StatusIsLifecycleStatus ==
  \A t \in askedIds :
     LET st == getTaskStatus(t)
     IN  /\ t \in DOMAIN activeTasks
            => st.found /\ st.status = "assigned" /\ st.id = t
         /\ \A c \in finalized :
              calls[c].taskId = t
              => /\ st.found /\ st.id = t
                 /\ st.status = IF calls[c].procResult.success
                                 THEN "completed" ELSE "failed"
         /\ (t \notin DOMAIN activeTasks
             /\ \A i \in 1..Len(taskHistory) : taskHistory[i].id # t)
            => ~st.found

\* one task is active, another is in the history as failed, and a third id
\* is unknown
C33_Witness ==
  /\ \E t \in askedIds : getTaskStatus(t).found /\ getTaskStatus(t).status = "assigned"
  /\ \E t \in askedIds : getTaskStatus(t).found /\ getTaskStatus(t).status = "failed"
  /\ \E t \in askedIds : ~getTaskStatus(t).found

\* a reading operation acts in the step: getTaskStatus or getSystemStatus is
\* called, or aggregateResults or generateTeamReport is entered or resumed
readStep == lookup' # lookup \/ health' # health \/ ceoCalls' # ceoCalls

\* C34: getTaskStatus, calculateSystemHealth, aggregateResults and
\* generateTeamReport leave the ledger and the team unchanged: no step of
\* them changes the active map, the history, tasksAssigned or tasksCompleted,
\* the registry, or the status or the local records of a registered worker;
\* and the coordinator, on which the last two run their completion call, is
\* never in the registry.
C34_ReadsLeaveLedgerAndTeam ==
  /\ [][ readStep
          => /\ UNCHANGED <<activeTasks, taskHistory, teamAgents>>
             /\ performanceMetrics'.tasksAssigned = performanceMetrics.tasksAssigned
             /\ performanceMetrics'.tasksCompleted = performanceMetrics.tasksCompleted
             /\ \A w \in registered :
                   status'[w] = status[w] /\ currentTasks'[w] = currentTasks[w] ]_vars
  /\ [] (CEO \notin registered)

\* an aggregation or a team report has returned while a registered worker
\* was busy with a task in the active map, and a status request and a health
\* request were answered
C34_Witness ==
  /\ \E c \in 1..Len(ceoCalls) : ceoCalls[c].pc = "done" /\ ceoCalls[c].ret.success
  /\ \E w \in registered : status[w] = "busy" /\ hasProcessing(w)
  /\ activeTasks # << >>
  /\ lookup.made /\ health.made

\* C35: a worker whose status is offline is never assigned a task by
\* assignTask, in the idle branch or in the least-busy fallback, and its
\* status stays offline: no step of an assignTask turns it busy or idle.
C35_OfflineNeverAssigned ==
  [][ \A a \in Workers :
        status[a] = "offline"
        => /\ status'[a] = "offline"
           /\ \A c \in 1..Len(calls') : c > Len(calls) => calls'[c].agent # a ]_vars

\* C36: the bot posts a task only from a session in state
\* selecting_priority, that is with a description the user supplied in that
\* session; a priority button pressed while the chat's session still awaits
\* its description submits nothing.
C36_PostOnlyAfterDescription ==
  \A i \in 1..Len(posts) :
     posts[i].state = "selecting_priority" /\ posts[i].description

\* C37: each /task session produces at most one POST /task, also when a
\* second priority button press arrives while the first submission awaits the
\* gateway.
C37_OnePostPerSession ==
  \A s \in 1..Len(sessions) :
     Cardinality({ i \in 1..Len(posts) : posts[i].session = s }) <= 1

\* C38: when submitTask ends for a chat, by whichever path (gateway success,
\* gateway failure, network error, or a reply that could not be sent), the
\* chat has no session, in AgentsTeamBot and in AgentsTeamBotFixed.
C38_SessionClearedAfterSubmit ==
  [][ \A h \in 1..Len(callbacks) :
        (~callbacks[h].finished /\ callbacks'[h].finished)
        => userSessions'[callbacks[h].chat] = 0 ]_vars

\* C39: clearCompletedTasks removes exactly the local records of the worker
\* whose status is completed or failed: every step that removes local records
\* of an agent removes all its completed and failed ones and nothing else,
\* keeps every processing record as it is, and leaves the statuses of the
\* agents, the other agents' records and the coordinator's ledger unchanged.
C39_ClearRemovesExactlyFinished ==
  [][ \A a \in Agents :
        (DOMAIN currentTasks[a] \ DOMAIN currentTasks'[a]) # {}
        => /\ DOMAIN currentTasks[a] \ DOMAIN currentTasks'[a]
                = { t \in DOMAIN currentTasks[a] :
                       currentTasks[a][t].status \in {"completed", "failed"} }
           /\ DOMAIN currentTasks'[a] \subseteq DOMAIN currentTasks[a]
           /\ \A t \in DOMAIN currentTasks[a] :
                 currentTasks[a][t].status = "processing"
                 => t \in DOMAIN currentTasks'[a] /\ currentTasks'[a][t] = currentTasks[a][t]
           /\ \A b \in Agents \ {a} : currentTasks'[b] = currentTasks[b]
           /\ UNCHANGED <<status, activeTasks, taskHistory, performanceMetrics, teamAgents>> ]_vars

\* a worker held a finished and a processing record, and was cleared: the
\* task of a returned invocation is gone from its map, the processing record
\* of the other is still there
C39_Witness ==
  \E c \in created : \E d \in inFlight :
     /\ calls[c].agent = calls[d].agent
     /\ calls[c].pc \in {"awaitProcess", "done"}
     /\ calls[c].taskId \notin DOMAIN currentTasks[calls[c].agent]
     /\ calls[d].taskId \in DOMAIN currentTasks[calls[d].agent]
     /\ currentTasks[calls[d].agent][calls[d].taskId].status = "processing"

====
